---- MODULE Spec2Model ----
(***************************************************************************)
(* Model of the transcript servers of shorts-digest-next.                  *)
(*                                                                         *)
(*   server.py : the audio transcription server (/transcribe,              *)
(*               /transcribe-local) and its on-disk JSON cache             *)
(*   serve.py  : the native transcript server: rate limiter, video id      *)
(*               extraction, SRT/VTT timestamps, transcript fallback chain *)
(*                                                                         *)
(* Strings that the code only compares or copies are TLA+ strings.  A file *)
(* is a sequence of tokens (one token = one serialized key/value pair of   *)
(* the JSON object), so that truncation, partial writes and overwrites at  *)
(* an offset are visible.                                                  *)
(***************************************************************************)
EXTENDS Integers, Sequences, FiniteSets, TLC

VARIABLES
    \* ---- server.py ----
    files,          \* directory of the cache dir: path -> inode number, 0 = no such file
    inodes,         \* inode number -> file content (sequence of tokens)
    pc,             \* per worker: position in the request handler
    loc,            \* per worker: local variables of the handler
    ev,             \* per worker: what the current request has done so far
    completed,      \* the request whose handler returned in the last step: response, doings
    seen,           \* what the json.load of the last step read from a final cache path
    nreq,           \* number of requests received so far
    tmpfiles,       \* NamedTemporaryFile files that exist on disk (by request id)
    renamed,        \* per cache key: payload of the last os.replace into the final path
    \* ---- serve.py ----
    now,            \* time.time(), in seconds
    ticks,          \* how often the clock has advanced
    rate_limit,     \* RATE_LIMIT_PER_MINUTE
    _rate_buckets,  \* ip -> list of admitted timestamps
    history,        \* ip -> every request of that ip so far: its time and whether admitted
    verdict,        \* what _before_request did with the request of the last step
    world,          \* fetch_transcript: what each library call will do
    fpc,            \* fetch_transcript: position
    fi,             \* fetch_transcript: loop index over transcript_list
    tried,          \* fetch_transcript: strategies attempted, in order
    fresult,        \* fetch_transcript: returned value / raised error
    args,           \* request.args of /transcript: the lang and languages parameters
    languages,      \* get_languages_from_request(): the list handed to fetch_transcript
    passed,         \* fetch_transcript: the library calls made so far, with their arguments
    url_or_id,      \* extract_video_id: input
    video_id,       \* extract_video_id: result
    seconds,        \* seconds_to_*_time: input, in units of 1/Scale second
    srt,            \* seconds_to_srt_time result
    vtt             \* seconds_to_vtt_time result

serverVars == <<files, inodes, pc, loc, completed, ev, seen, nreq, tmpfiles, renamed>>
rateVars   == <<now, ticks, rate_limit, _rate_buckets, history, verdict>>
fetchVars  == <<world, fpc, fi, tried, fresult, args, languages, passed>>
extractVars == <<url_or_id, video_id>>
timeVars   == <<seconds, srt, vtt>>
vars == <<serverVars, rateVars, fetchVars, extractVars, timeVars>>

(***************************************************************************)
(* Bounds                                                                  *)
(***************************************************************************)
MaxRequests == 3    \* requests received in one run
ChunkTokens == 4    \* tokens flushed by one write() of the buffered file

\* two request handlers run concurrently (the threads of the Flask server)
Procs == {1, 2}

Min(a, b) == IF a < b THEN a ELSE b

(***************************************************************************)
(* server.py: cache keys, paths, serialization                             *)
(***************************************************************************)
MODEL == "gpt-4o-mini-transcribe"

Urls      == {"u1"}      \* youtube_url values of the requests
FileBytes == {"b1"}      \* byte contents of uploaded / local audio files

\* sha256 is modelled as injective: the digest is the hashed string itself
build_youtube_cache_key(youtube_url) == <<"youtube", MODEL, youtube_url>>
build_file_cache_key(bytes) == <<"file", MODEL, bytes>>

CacheKeys == {build_youtube_cache_key(u) : u \in Urls}
                \cup {build_file_cache_key(b) : b \in FileBytes}

get_cache_path(cache_key) == <<cache_key, ".json">>
temp_path(cache_key) == <<cache_key, ".json.tmp">>
Paths == {get_cache_path(k) : k \in CacheKeys} \cup {temp_path(k) : k \in CacheKeys}

\* the response_data dict built after a successful transcription
ResponseData(kind, id, origin) ==
    IF kind = "youtube"
    THEN [success |-> TRUE, transcript |-> "text" \o ToString(id), source |-> "youtube",
          url |-> origin, model |-> MODEL, cached |-> FALSE,
          timestamp |-> "ts" \o ToString(id)]
    ELSE [success |-> TRUE, transcript |-> "text" \o ToString(id),
          source |-> IF kind = "upload" THEN "file_upload" ELSE "local_file",
          filename |-> origin, model |-> MODEL, cached |-> FALSE,
          timestamp |-> "ts" \o ToString(id)]

\* to_store = dict(payload); to_store["cached"] = False
ToStore(payload) == [payload EXCEPT !.cached = FALSE]

\* insertion order of the dict's keys, which is the order json.dump writes them
KeyOrder(d) ==
    IF "url" \in DOMAIN d
    THEN <<"success", "transcript", "source", "url", "model", "cached", "timestamp">>
    ELSE <<"success", "transcript", "source", "filename", "model", "cached", "timestamp">>

BoolKeys == {"success", "cached"}
JsonText(k, v) == IF k \in BoolKeys THEN (IF v THEN "true" ELSE "false") ELSE v
JsonValue(k, t) == IF k \in BoolKeys THEN t = "true" ELSE t

\* json.dump: one token <<key, json text of the value>> per item
Serialize(d) == [i \in 1..Len(KeyOrder(d)) |->
                    <<KeyOrder(d)[i], JsonText(KeyOrder(d)[i], d[KeyOrder(d)[i]])>>]

Hole == <<"", "">>      \* NUL bytes of a region never written

KeyOrders == {<<"success", "transcript", "source", "url", "model", "cached", "timestamp">>,
              <<"success", "transcript", "source", "filename", "model", "cached", "timestamp">>}

\* json.load succeeds: a complete object, every item intact
WellFormed(content) ==
    /\ [i \in 1..Len(content) |-> content[i][1]] \in KeyOrders
    /\ \A i \in 1..Len(content) :
          content[i][1] \in BoolKeys => content[i][2] \in {"true", "false"}

json_load(content) ==
    [k \in {content[i][1] : i \in 1..Len(content)} |->
        LET i == CHOOSE j \in 1..Len(content) : content[j][1] = k
        IN  JsonValue(k, content[i][2])]

MarkCachedNot(data) == data

\* data["cached"] = True
MarkCached(data) == [data EXCEPT !.cached = TRUE]

\* write(chunk) on a descriptor at offset off: overwrites in place, extends the
\* file, and leaves a hole when the file was truncated below the offset
WriteAt(content, off, chunk) ==
    LET newlen == IF off + Len(chunk) > Len(content) THEN off + Len(chunk) ELSE Len(content)
    IN  [i \in 1..newlen |->
            IF i > off /\ i <= off + Len(chunk) THEN chunk[i - off]
            ELSE IF i <= Len(content) THEN content[i]
            ELSE Hole]

(***************************************************************************)
(* server.py: the request handlers.  One action per stretch of a handler   *)
(* between two accesses to the shared cache directory; the external calls  *)
(* (downloader, transcription model) are actions of their own.  A handler  *)
(* that returns leaves its response in `completed` and its worker idle.    *)
(***************************************************************************)
\* the handlers of server.py leave the state of serve.py alone
ServerFrame == UNCHANGED <<now, ticks, rate_limit, _rate_buckets, history, verdict,
                           world, fpc, fi, tried, fresult, args, languages, passed,
                           url_or_id, video_id, seconds, srt, vtt>>

NoLocals == [id |-> 0, kind |-> "none", origin |-> "", cache_key |-> <<>>,
             fd |-> 0, off |-> 0, cached |-> <<>>, response_data |-> <<>>]
NoneCompleted == [id |-> 0, kind |-> "none", status |-> 0, body |-> <<>>, ev |-> <<>>]

\* the except clauses of the handlers: the response for an exception of type exc
ExceptResponse(kind, exc) ==
    IF kind = "local"
    THEN [status |-> 500, body |-> [success |-> FALSE, error |-> "Error transcribing local audio"]]
    ELSE IF exc = "CalledProcessError"
    THEN [status |-> 500, body |-> [success |-> FALSE, error |-> "Error downloading YouTube video"]]
    ELSE [status |-> 500, body |-> [success |-> FALSE, error |-> "Error processing audio"]]

\* the handler of request id returns response r; log is all that the request did
Return(p, id, kind, r, log) ==
    /\ completed' = [id |-> id, kind |-> kind, status |-> r.status, body |-> r.body, ev |-> log]
    /\ pc' = [pc EXCEPT ![p] = "idle"]
    /\ loc' = [loc EXCEPT ![p] = NoLocals]
    /\ ev' = [ev EXCEPT ![p] = <<>>]
    /\ seen' = <<>>

\* an exception of type exc leaves the try block of the handler of worker p
Raise(p, exc, what) ==
    Return(p, loc[p].id, loc[p].kind, ExceptResponse(loc[p].kind, exc), ev[p] \o what)

\* the handler goes on to position `to` with locals l
Goto(p, to, l, what) ==
    /\ pc' = [pc EXCEPT ![p] = to]
    /\ loc' = [loc EXCEPT ![p] = l]
    /\ ev' = [ev EXCEPT ![p] = @ \o what]
    /\ completed' = NoneCompleted
    /\ seen' = <<>>

CanReceive(p) == pc[p] = "idle" /\ nreq < MaxRequests

\* the 400 responses: not JSON, empty JSON, no youtube_url and no audio, empty filename
BadRequest(p) ==
    /\ CanReceive(p)
    /\ nreq' = nreq + 1
    /\ Return(p, nreq + 1, "bad",
              [status |-> 400, body |-> [success |-> FALSE, error |-> "bad request"]],
              <<"bad_request">>)
    /\ UNCHANGED <<files, inodes, tmpfiles, renamed>>
    /\ ServerFrame

\* /transcribe with a youtube_url: the key is built from the URL
TranscribeYoutube(p) ==
    /\ CanReceive(p)
    /\ nreq' = nreq + 1
    /\ \E u \in Urls :
          Goto(p, "read_cache",
               [NoLocals EXCEPT !.id = nreq + 1, !.kind = "youtube", !.origin = u,
                                !.cache_key = build_youtube_cache_key(u)],
               <<"key">>)
    /\ UNCHANGED <<files, inodes, tmpfiles, renamed>>
    /\ ServerFrame

\* /transcribe with an uploaded file: NamedTemporaryFile(delete=False) creates the
\* file, audio_file.save fills it, build_file_cache_key hashes it
TranscribeUpload(p) ==
    /\ CanReceive(p)
    /\ nreq' = nreq + 1
    /\ tmpfiles' = tmpfiles \cup {nreq + 1}
    /\ \E b \in FileBytes, out \in {"ok", "save_failed", "key_failed"} :
          IF out = "ok"
          THEN Goto(p, "read_cache",
                       [NoLocals EXCEPT !.id = nreq + 1, !.kind = "upload", !.origin = "a.mp3",
                                        !.cache_key = build_file_cache_key(b)],
                       <<"tempfile", "key">>)
          ELSE Return(p, nreq + 1, "upload", ExceptResponse("upload", "Exception"),
                      <<"tempfile", out>>)
    /\ UNCHANGED <<files, inodes, renamed>>
    /\ ServerFrame

\* /transcribe-local: 404 unless audio.mp3 exists; build_file_cache_key hashes it
TranscribeLocal(p) ==
    /\ CanReceive(p)
    /\ nreq' = nreq + 1
    /\ \E b \in FileBytes, out \in {"ok", "not_found", "key_failed"} :
          CASE out = "ok" ->
                 Goto(p, "read_cache",
                         [NoLocals EXCEPT !.id = nreq + 1, !.kind = "local",
                                          !.origin = "audio.mp3",
                                          !.cache_key = build_file_cache_key(b)],
                         <<"exists", "key">>)
            [] out = "not_found" ->
                 Return(p, nreq + 1, "local",
                        [status |-> 404, body |->
                            [success |-> FALSE, error |-> "audio.mp3 file not found"]],
                        <<"not_found">>)
            [] OTHER ->
                 Return(p, nreq + 1, "local", ExceptResponse("local", "Exception"),
                        <<"exists", "key_failed">>)
    /\ UNCHANGED <<files, inodes, tmpfiles, renamed>>
    /\ ServerFrame

(***************************************************************************)
(* read_cache                                                              *)
(***************************************************************************)
read_cache_reraise == "reraise"

\* the except clause of read_cache: log, fall through to "return None"
read_cache_except == "return_none"

\* makedirs, exists or open raising inside read_cache
ReadCacheFailed(p) ==
    IF read_cache_except = "return_none"
    THEN Goto(p, "lookup_done", [loc[p] EXCEPT !.cached = <<>>, !.fd = 0],
              <<"io_error", "read_failed">>)
    ELSE Raise(p, "Exception", <<"io_error", "read_failed">>)

\* get_cache_path, os.path.exists, open(cache_path, "r")
ReadCacheOpen(p) ==
    /\ pc[p] = "read_cache"
    /\ \E ok \in BOOLEAN :
          IF ~ok
          THEN ReadCacheFailed(p)
          ELSE IF files[get_cache_path(loc[p].cache_key)] = 0
               THEN Goto(p, "lookup_done", [loc[p] EXCEPT !.cached = <<>>], <<>>)
               ELSE Goto(p, "json_load",
                         [loc[p] EXCEPT !.fd = files[get_cache_path(loc[p].cache_key)]], <<>>)
    /\ UNCHANGED <<files, inodes, nreq, tmpfiles, renamed>>
    /\ ServerFrame

\* json.load(f): reads what the opened file holds now; data["cached"] = True
ReadCacheLoad(p) ==
    /\ pc[p] = "json_load"
    /\ IF WellFormed(inodes[loc[p].fd])
       THEN /\ pc' = [pc EXCEPT ![p] = "lookup_done"]
            /\ loc' = [loc EXCEPT ![p].cached = <<MarkCached(json_load(inodes[loc[p].fd]))>>,
                                  ![p].fd = 0]
            /\ UNCHANGED ev
            /\ completed' = NoneCompleted
            /\ seen' = <<inodes[loc[p].fd]>>
       ELSE IF read_cache_except = "return_none"
       THEN /\ pc' = [pc EXCEPT ![p] = "lookup_done"]
            /\ loc' = [loc EXCEPT ![p].cached = <<>>, ![p].fd = 0]
            /\ ev' = [ev EXCEPT ![p] = @ \o <<"read_failed">>]
            /\ completed' = NoneCompleted
            /\ seen' = <<inodes[loc[p].fd]>>
       ELSE Raise(p, "Exception", <<"read_failed">>)
    /\ UNCHANGED <<files, inodes, nreq, tmpfiles, renamed>>
    /\ ServerFrame

IsHitNever(cached) == FALSE

\* "if cached:" in the handlers
IsHit(cached) == cached # <<>>

\* cache hit: return jsonify(cached); the upload branch first unlinks its temp
\* file inside try/except-pass
CacheHit(p) ==
    /\ pc[p] = "lookup_done"
    /\ IsHit(loc[p].cached)
    /\ Return(p, loc[p].id, loc[p].kind, [status |-> 200, body |-> loc[p].cached[1]],
              ev[p] \o <<"hit">>)
    /\ \E unlinked \in BOOLEAN :
          tmpfiles' = IF loc[p].kind = "upload" /\ unlinked
                      THEN tmpfiles \ {loc[p].id} ELSE tmpfiles
    /\ UNCHANGED <<files, inodes, nreq, renamed>>
    /\ ServerFrame

(***************************************************************************)
(* acquiring audio and transcribing                                        *)
(***************************************************************************)
DownloadOutcomes == {"ok", "nonzero_exit", "cannot_start", "no_file"}

\* cache miss with a youtube_url: subprocess.run(["yt-dlp", ...], check=True) in
\* a TemporaryDirectory, then open(audio_path, "rb")
Download(p) ==
    /\ pc[p] = "lookup_done"
    /\ ~IsHit(loc[p].cached)
    /\ loc[p].kind = "youtube"
    /\ \E out \in DownloadOutcomes :
          CASE out = "ok" ->
                  Goto(p, "transcribe", loc[p], <<"miss", "download">>)
            [] out = "nonzero_exit" ->
                  Raise(p, "CalledProcessError", <<"miss", "download", "download_failed">>)
            [] OTHER ->
                  Raise(p, "Exception", <<"miss", "download", "download_failed">>)
    /\ UNCHANGED <<files, inodes, nreq, tmpfiles, renamed>>
    /\ ServerFrame

TranscribeFailedCached(p, pre) ==
    Goto(p, "write_cache",
         [loc[p] EXCEPT !.response_data =
             <<[ResponseData(loc[p].kind, loc[p].id, loc[p].origin) EXCEPT !.success = FALSE]>>],
         pre \o <<"transcribe", "transcribe_failed">>)

\* client.audio.transcriptions.create(...) raises: the exception leaves the try block
\* before response_data is built and before write_cache is called
TranscribeFailed(p, pre) ==
    Raise(p, "Exception", pre \o <<"transcribe", "transcribe_failed">>)

\* client.audio.transcriptions.create(...), reached after the download or, for a
\* file, right after the cache miss; the upload handler then unlinks its temp
\* file; response_data is built
Transcribe(p) ==
    /\ \/ pc[p] = "transcribe"
       \/ pc[p] = "lookup_done" /\ ~IsHit(loc[p].cached) /\ loc[p].kind # "youtube"
    /\ LET pre == IF pc[p] = "lookup_done" THEN <<"miss">> ELSE <<>> IN
       \E out \in {"ok", "transcribe_failed", "unlink_failed"} :
          CASE out = "ok" ->
                 /\ Goto(p, "write_cache",
                         [loc[p] EXCEPT !.response_data =
                                    <<ResponseData(loc[p].kind, loc[p].id, loc[p].origin)>>],
                         pre \o <<"transcribe">>)
                 /\ tmpfiles' = tmpfiles \ {loc[p].id}
            [] out = "transcribe_failed" ->
                 /\ TranscribeFailed(p, pre)
                 /\ UNCHANGED tmpfiles
            [] OTHER ->
                 /\ loc[p].kind = "upload"
                 /\ Raise(p, "Exception", pre \o <<"transcribe", "unlink_failed">>)
                 /\ UNCHANGED tmpfiles
    /\ UNCHANGED <<files, inodes, nreq, renamed>>
    /\ ServerFrame

(***************************************************************************)
(* write_cache                                                             *)
(***************************************************************************)
write_cache_reraise == "reraise"

\* the except clause of write_cache: log and return
write_cache_except == "return"

\* write_cache returned: return jsonify(response_data).  In the youtube branch the
\* return leaves the "with tempfile.TemporaryDirectory()" block, whose cleanup can
\* raise; the exception reaches "except Exception" of the handler
Respond(p, what) ==
    \E cleaned \in BOOLEAN :
        IF cleaned \/ loc[p].kind # "youtube"
        THEN Return(p, loc[p].id, loc[p].kind,
                    [status |-> 200, body |-> loc[p].response_data[1]],
                    ev[p] \o what \o <<"respond">>)
        ELSE Raise(p, "Exception", what \o <<"cleanup_failed">>)

\* an exception inside write_cache
WriteCacheFailed(p, why) ==
    IF write_cache_except = "return"
    THEN Respond(p, why \o <<"write_failed">>)
    ELSE Raise(p, "Exception", why \o <<"write_failed">>)

\* what this worker's write_cache serializes
ToWrite(p) == Serialize(ToStore(loc[p].response_data[1]))

\* get_cache_path; to_store; open(temp_path, "w"): creates the file, or truncates
\* the file that is there
WriteCacheOpen(p) ==
    /\ pc[p] = "write_cache"
    /\ \E ok \in BOOLEAN :
          IF ~ok
          THEN /\ WriteCacheFailed(p, <<"write_cache", "io_error">>)
               /\ UNCHANGED <<files, inodes>>
          ELSE LET tmp == temp_path(loc[p].cache_key) IN
                  IF files[tmp] = 0
                  THEN /\ inodes' = Append(inodes, <<>>)
                       /\ files' = [files EXCEPT ![tmp] = Len(inodes) + 1]
                       /\ Goto(p, "write", [loc[p] EXCEPT !.fd = Len(inodes) + 1, !.off = 0],
                               <<"write_cache">>)
                  ELSE /\ inodes' = [inodes EXCEPT ![files[tmp]] = <<>>]
                       /\ files' = files
                       /\ Goto(p, "write", [loc[p] EXCEPT !.fd = files[tmp], !.off = 0],
                               <<"write_cache">>)
    /\ UNCHANGED <<nreq, tmpfiles, renamed>>
    /\ ServerFrame

\* json.dump through the buffered file: one write() per ChunkTokens tokens, at
\* the descriptor's own offset; the last one is the flush of close()
WriteCacheWrite(p) ==
    /\ pc[p] = "write"
    /\ LET upto == Min(loc[p].off + ChunkTokens, Len(ToWrite(p))) IN
          /\ inodes' = [inodes EXCEPT ![loc[p].fd] =
                            WriteAt(@, loc[p].off, SubSeq(ToWrite(p), loc[p].off + 1, upto))]
          /\ Goto(p, IF upto = Len(ToWrite(p)) THEN "replace" ELSE "write",
                  [loc[p] EXCEPT !.off = upto], <<>>)
    /\ UNCHANGED <<files, nreq, tmpfiles, renamed>>
    /\ ServerFrame

\* os.replace(temp_path, cache_path): FileNotFoundError when temp_path is gone;
\* write_cache returns and the handler returns jsonify(response_data)
WriteCacheReplace(p) ==
    /\ pc[p] = "replace"
    /\ LET tmp == temp_path(loc[p].cache_key)
           final == get_cache_path(loc[p].cache_key) IN
          IF files[tmp] = 0
          THEN /\ WriteCacheFailed(p, <<>>)
               /\ UNCHANGED <<files, renamed>>
          ELSE /\ files' = [files EXCEPT ![final] = files[tmp], ![tmp] = 0]
               /\ renamed' = [renamed EXCEPT ![loc[p].cache_key] = <<ToWrite(p)>>]
               /\ Respond(p, <<>>)
    /\ UNCHANGED <<inodes, nreq, tmpfiles>>
    /\ ServerFrame

(***************************************************************************)
(* The transcription server                                                *)
(***************************************************************************)
ServerInit ==
    /\ files = [f \in Paths |-> 0]
    /\ inodes = <<>>
    /\ pc = [p \in Procs |-> "idle"]
    /\ loc = [p \in Procs |-> NoLocals]
    /\ completed = NoneCompleted
    /\ ev = [p \in Procs |-> <<>>]
    /\ seen = <<>>
    /\ nreq = 0
    /\ tmpfiles = {}
    /\ renamed = [k \in CacheKeys |-> <<>>]

Next ==
    \E p \in Procs :
        \/ BadRequest(p)
        \/ TranscribeYoutube(p)
        \/ TranscribeUpload(p)
        \/ TranscribeLocal(p)
        \/ ReadCacheOpen(p)
        \/ ReadCacheLoad(p)
        \/ CacheHit(p)
        \/ Download(p)
        \/ Transcribe(p)
        \/ WriteCacheOpen(p)
        \/ WriteCacheWrite(p)
        \/ WriteCacheReplace(p)

RateIdle ==
    /\ now = 0 /\ ticks = 0 /\ rate_limit = 0 /\ _rate_buckets = <<>> /\ history = <<>> /\ verdict = <<>>
FetchIdle ==
    /\ world = <<>> /\ fpc = "idle" /\ fi = 0 /\ tried = <<>> /\ fresult = <<>>
    /\ args = <<>> /\ languages = <<>> /\ passed = <<>>
ExtractIdle == url_or_id = <<>> /\ video_id = <<>>
TimeIdle == seconds = 0 /\ srt = <<>> /\ vtt = <<>>

Init == ServerInit /\ RateIdle /\ FetchIdle /\ ExtractIdle /\ TimeIdle
Spec == Init /\ [][Next]_vars

(***************************************************************************)
(* Claims about the cache and the transcription handlers (under Spec)      *)
(***************************************************************************)
Has(log, what) == \E i \in 1..Len(log) : log[i] = what
Count(log, what) == Cardinality({i \in 1..Len(log) : log[i] = what})

\* every serialized payload a write_cache call of this run can be given
CompletePayloads ==
    {Serialize(ToStore(ResponseData("youtube", i, u))) : i \in 1..MaxRequests, u \in Urls}
      \cup {Serialize(ToStore(ResponseData(k, i, o))) :
                k \in {"upload", "local"}, i \in 1..MaxRequests, o \in {"a.mp3", "audio.mp3"}}

Quiescent == \A p \in Procs : pc[p] = "idle"

\* C1: a read of a final cache path never sees a torn or partially written file:
\* what json.load reads is the complete serialization of one write_cache payload.
C1_NoTornRead == seen # <<>> => seen[1] \in CompletePayloads

\* C2: once all writers have finished, the entry stored under a key is exactly the
\* payload of the last writer that renamed into place, and no writer lost its
\* update to an error (of its own making: the environment failed none of its calls).
C2_LastWriterWins ==
    /\ Quiescent =>
          \A k \in CacheKeys :
              renamed[k] # <<>> =>
                  /\ files[get_cache_path(k)] # 0
                  /\ inodes[files[get_cache_path(k)]] = renamed[k][1]
    /\ ~(Has(completed.ev, "write_failed") /\ ~Has(completed.ev, "io_error"))

\* C3: the response after a miss, transcription and write_cache has cached = false;
\* every token "cached" that write_cache persisted is false; every entry returned by
\* read_cache, and so every response served from the cache, has cached = true.
C3_CachedFlag ==
    /\ Has(completed.ev, "respond") => completed.status = 200 /\ completed.body.cached = FALSE
    /\ \A n \in 1..Len(inodes) : \A j \in 1..Len(inodes[n]) :
          inodes[n][j][1] = "cached" => inodes[n][j][2] = "false"
    /\ \A p \in Procs : loc[p].cached # <<>> => loc[p].cached[1].cached = TRUE
    /\ Has(completed.ev, "hit") => completed.status = 200 /\ completed.body.cached = TRUE

\* a request served from an entry that write_cache persisted with cached = false
C3_Witness ==
    /\ Has(completed.ev, "hit")
    /\ completed.body.cached = TRUE
    /\ \E k \in CacheKeys : /\ renamed[k] # <<>>
                            /\ \E j \in 1..Len(renamed[k][1]) : renamed[k][1][j] = <<"cached", "false">>

\* what a request meets that is no cache failure
OtherFaults == {"bad_request", "not_found", "save_failed", "key_failed", "download_failed",
                "transcribe_failed", "unlink_failed", "cleanup_failed"}

\* C4: a failure of read_cache or write_cache never reaches the caller: after a failed
\* read the request goes on as a cache miss, after a failed write it still returns the
\* transcription, and a request that met no other failure ends with 200 and success.
C4_CacheFailuresSwallowed ==
    /\ \A p \in Procs : \A i \in 1..Len(ev[p]) :
          ev[p][i] = "read_failed" =>
              /\ pc[p] # "idle"
              /\ loc[p].cached = <<>>
              /\ i < Len(ev[p]) => ev[p][i + 1] = "miss"
    /\ \A i \in 1..Len(completed.ev) :
          /\ completed.ev[i] = "read_failed" => i < Len(completed.ev) /\ completed.ev[i + 1] = "miss"
          /\ completed.ev[i] = "write_failed" =>
                i < Len(completed.ev) /\ completed.ev[i + 1] \in {"respond", "cleanup_failed"}
    /\ (completed.id # 0 /\ \A i \in 1..Len(completed.ev) : completed.ev[i] \notin OtherFaults)
          => completed.status = 200 /\ completed.body.success = TRUE

\* a request whose cache read and cache write both failed, answered with the transcript
C4_Witness ==
    /\ Has(completed.ev, "read_failed")
    /\ Has(completed.ev, "write_failed")
    /\ completed.status = 200
    /\ completed.body.cached = FALSE

\* C5: for a youtube_url the key is computed and looked up before any download; a
\* request whose lookup returned an entry invokes neither the downloader nor the
\* transcription model; a miss invokes each at most once.
C5_LookupBeforeDownload ==
    /\ \A p \in Procs :
          /\ loc[p].cached # <<>> => ~Has(ev[p], "download") /\ ~Has(ev[p], "transcribe")
          /\ Count(ev[p], "download") <= 1 /\ Count(ev[p], "transcribe") <= 1
          /\ \A i \in 1..Len(ev[p]) :
                ev[p][i] = "download" => i > 2 /\ ev[p][i - 1] = "miss" /\ Has(SubSeq(ev[p], 1, i - 2), "key")
    /\ Has(completed.ev, "hit") => ~Has(completed.ev, "download") /\ ~Has(completed.ev, "transcribe")
    /\ Count(completed.ev, "download") <= 1 /\ Count(completed.ev, "transcribe") <= 1
    /\ \A i \in 1..Len(completed.ev) :
          completed.ev[i] = "download" =>
              i > 2 /\ completed.ev[i - 1] = "miss" /\ Has(SubSeq(completed.ev, 1, i - 2), "key")

\* a youtube request answered from the cache, and one that downloaded after a miss
C5_Witness ==
    /\ completed.kind = "youtube"
    /\ Has(completed.ev, "hit")
    /\ \E p \in Procs : loc[p].kind = "youtube" /\ Has(ev[p], "download")

C11_ErrorKinds ==
    /\ Has(completed.ev, "download_failed") =>
          completed.status = 500 /\ completed.body.error = "Error downloading YouTube video"
    /\ Has(completed.ev, "transcribe_failed") =>
          /\ completed.status = 500
          /\ completed.body.error \in {"Error processing audio", "Error transcribing local audio"}
    /\ Has(completed.ev, "not_found") =>
          completed.status = 404 /\ completed.body.error = "audio.mp3 file not found"

\* the states a request went through, as its log shows them: CACHE_HIT, CACHE_MISS,
\* the download of ACQUIRING_AUDIO, TRANSCRIBING, CACHE_WRITE, DONE after a miss
Milestones == {"hit", "miss", "download", "transcribe", "write_cache", "respond"}
StatesOf(log) == SelectSeq(log, LAMBDA e : e \in Milestones)
Last(log) == log[Len(log)]

\* a request that passed the 400 checks has returned
WellFormedDone == completed.id # 0 /\ completed.kind # "bad"

\* the two ways to DONE
DonePaths(kind) ==
    {<<"hit">>,
     IF kind = "youtube" THEN <<"miss", "download", "transcribe", "write_cache", "respond">>
                         ELSE <<"miss", "transcribe", "write_cache", "respond">>}

\* C12 as stated: a request goes RECEIVED, CACHE_HIT, DONE or RECEIVED, CACHE_MISS,
\* ACQUIRING_AUDIO, TRANSCRIBING, CACHE_WRITE, DONE, and an error response comes only
\* from ACQUIRING_AUDIO or TRANSCRIBING: after a cache miss, never before the lookup
\* and never after the transcription call has succeeded.
C12_StateMachine ==
    WellFormedDone =>
        IF completed.status = 200
        THEN StatesOf(completed.ev) \in DonePaths(completed.kind)
        ELSE /\ Has(completed.ev, "miss")
             /\ \/ Last(completed.ev) = "download_failed"
                \/ Last(completed.ev) = "transcribe_failed"

\* C12 amended: the two ways to DONE are as stated.  An error response comes
\*   - before the lookup, for an upload or the local file only: the upload cannot be
\*     saved, the file cannot be hashed, audio.mp3 is missing (404);
\*   - after a miss from the download or from the transcription call;
\*   - after the transcription call has succeeded, only from removing the upload's
\*     temporary file (before write_cache) or the download's temporary directory
\*     (after write_cache).
\* A request never fails on a cache hit, and never because write_cache failed.
C12_StateMachineAmended ==
    WellFormedDone =>
        LET k == completed.kind
            path == StatesOf(completed.ev)
            last == Last(completed.ev)
        IN  IF completed.status = 200
            THEN path \in DonePaths(k)
            ELSE \/ /\ k \in {"upload", "local"}
                    /\ path = <<>>
                    /\ last \in {"save_failed", "key_failed", "not_found"}
                    /\ (last = "not_found") <=> (completed.status = 404)
                 \/ /\ k = "youtube"
                    /\ path = <<"miss", "download">>
                    /\ last = "download_failed"
                 \/ /\ path = IF k = "youtube" THEN <<"miss", "download", "transcribe">>
                                               ELSE <<"miss", "transcribe">>
                    /\ \/ last = "transcribe_failed"
                       \/ last = "unlink_failed" /\ k = "upload"
                 \/ /\ k = "youtube"
                    /\ path = <<"miss", "download", "transcribe", "write_cache">>
                    /\ last = "cleanup_failed"

\* a youtube request that failed after its transcription was obtained and cached
C12_Witness ==
    /\ completed.kind = "youtube"
    /\ completed.status = 500
    /\ StatesOf(completed.ev) = <<"miss", "download", "transcribe", "write_cache">>
    /\ Last(completed.ev) = "cleanup_failed"
    /\ renamed[build_youtube_cache_key("u1")] # <<>>

\* the positions inside write_cache
Writing == {"write_cache", "write", "replace"}

\* the error responses the claim names: bad request, download failure,
\* transcription failure, file not found
NamedErrors == {"bad_request", "download_failed", "transcribe_failed", "not_found"}

\* a handler is in write_cache only with the response_data of a transcription call
\* that returned; every "success" written to the cache directory is true; a request
\* answered with one of the named errors never called write_cache
OnlySuccessCached ==
    /\ \A p \in Procs :
          /\ Has(ev[p], "write_cache") \/ pc[p] \in Writing =>
                /\ Has(ev[p], "transcribe")
                /\ ~Has(ev[p], "transcribe_failed")
                /\ loc[p].response_data # <<>>
                /\ loc[p].response_data[1].success = TRUE
    /\ \A n \in 1..Len(inodes) : \A j \in 1..Len(inodes[n]) :
          inodes[n][j][1] = "success" => inodes[n][j][2] = "true"
    /\ \A k \in CacheKeys : renamed[k] # <<>> => <<"success", "true">> = renamed[k][1][1]
    /\ (completed.id # 0 /\ Last(completed.ev) \in NamedErrors) =>
          /\ completed.status >= 400
          /\ ~Has(completed.ev, "write_cache")

\* the cache directory changes only in a step of a handler that is inside write_cache,
\* and the step in which a named error is returned leaves it as it was
CacheFrame ==
    /\ (files' # files \/ inodes' # inodes) =>
          \E p \in Procs : /\ pc[p] \in Writing /\ Has(ev[p], "transcribe")
                            /\ <<pc'[p], loc'[p]>> # <<pc[p], loc[p]>>
    /\ (completed'.id # 0 /\ Last(completed'.ev) \in NamedErrors) =>
          files' = files /\ inodes' = inodes

MaxLimit        == 2    \* RATE_LIMIT_PER_MINUTE is drawn from 0..MaxLimit
MaxTicks        == 4    \* advances of the clock in one run
MaxRateRequests == 4    \* requests in one run

Window == 60            \* window_start = now - 60.0

IPs == {"ip1", "ip2"}           \* values of _get_client_ip()
Deltas == {1, 30, 59}           \* seconds by which the clock advances between requests

RateFrame == UNCHANGED <<files, inodes, pc, loc, completed, ev, seen, nreq, tmpfiles, renamed,
                         world, fpc, fi, tried, fresult, args, languages, passed,
                         url_or_id, video_id, seconds, srt, vtt>>

\* while bucket and bucket[0] < window_start: bucket.pop(0)
RECURSIVE Prune(_, _)
Prune(bucket, window_start) ==
    IF bucket # <<>> /\ Head(bucket) < window_start
    THEN Prune(Tail(bucket), window_start)
    ELSE bucket

LimitedOffByOne(bucket, limit) == Len(bucket) > limit

\* if len(bucket) >= RATE_LIMIT_PER_MINUTE
Limited(bucket, limit) == Len(bucket) >= limit

\* requests of ip admitted at or after time t
AdmittedSince(ip, t) ==
    Cardinality({i \in 1..Len(history[ip]) : history[ip][i].ok /\ history[ip][i].t >= t})

TotalRequests == Len(history["ip1"]) + Len(history["ip2"])

\* time.time() moves on (it is taken to be non-decreasing)
Tick ==
    /\ ticks < MaxTicks
    /\ \E d \in Deltas : now' = now + d
    /\ ticks' = ticks + 1
    /\ verdict' = <<>>
    /\ UNCHANGED <<rate_limit, _rate_buckets, history>>
    /\ RateFrame

\* _before_request for a request of client ip
BeforeRequest(ip) ==
    /\ TotalRequests < MaxRateRequests
    /\ IF rate_limit > 0
       THEN LET bucket == Prune(_rate_buckets[ip], now - Window) IN
            IF Limited(bucket, rate_limit)
            THEN /\ _rate_buckets' = [_rate_buckets EXCEPT ![ip] = bucket]
                 /\ history' = [history EXCEPT ![ip] = Append(@, [t |-> now, ok |-> FALSE])]
                 /\ verdict' = <<[ip |-> ip, status |-> 429,
                                  before |-> AdmittedSince(ip, now - Window)]>>
            ELSE /\ _rate_buckets' = [_rate_buckets EXCEPT ![ip] = Append(bucket, now)]
                 /\ history' = [history EXCEPT ![ip] = Append(@, [t |-> now, ok |-> TRUE])]
                 /\ verdict' = <<[ip |-> ip, status |-> 0,
                                  before |-> AdmittedSince(ip, now - Window)]>>
       ELSE /\ history' = [history EXCEPT ![ip] = Append(@, [t |-> now, ok |-> TRUE])]
            /\ verdict' = <<[ip |-> ip, status |-> 0, before |-> AdmittedSince(ip, now - Window)]>>
            /\ UNCHANGED _rate_buckets
    /\ UNCHANGED <<now, ticks, rate_limit>>
    /\ RateFrame

RateInit ==
    /\ now = 0
    /\ ticks = 0
    /\ rate_limit \in 0..MaxLimit
    /\ _rate_buckets = [ip \in IPs |-> <<>>]
    /\ history = [ip \in IPs |-> <<>>]
    /\ verdict = <<>>

ServerIdle ==
    /\ files = [f \in Paths |-> 0] /\ inodes = <<>> /\ pc = [p \in Procs |-> "idle"]
    /\ loc = [p \in Procs |-> NoLocals] /\ completed = NoneCompleted
    /\ ev = [p \in Procs |-> <<>>] /\ seen = <<>> /\ nreq = 0 /\ tmpfiles = {}
    /\ renamed = [k \in CacheKeys |-> <<>>]

InitRate == RateInit /\ ServerIdle /\ FetchIdle /\ ExtractIdle /\ TimeIdle
NextRate ==
    \/ Tick
    \/ \E ip \in IPs : BeforeRequest(ip)
SpecRate == InitRate /\ [][NextRate]_vars

\* C7: with a limit N > 0 a request is answered 429 exactly when N requests of its
\* IP were admitted within the 60 seconds before it; so the request after N admitted
\* ones in a window is rejected, and when the N-th last admitted request is more
\* than 60 seconds old the request is admitted.
C7_RateLimit ==
    (rate_limit > 0 /\ verdict # <<>>) =>
        LET v == verdict[1]
            h == history[v.ip]
            adm == SelectSeq(SubSeq(h, 1, Len(h) - 1), LAMBDA e : e.ok)
        IN  /\ (v.status = 429) <=> (v.before >= rate_limit)
            /\ v.status = 429 => h[Len(h)].ok = FALSE
            /\ (Len(adm) >= rate_limit /\ adm[Len(adm) - rate_limit + 1].t < now - Window)
                   => v.status = 0
            /\ Len(adm) < rate_limit => v.status = 0

\* a client that was rejected inside the window and is admitted again after it
C7_Witness ==
    /\ rate_limit = 2
    /\ verdict # <<>>
    /\ verdict[1].status = 0
    /\ LET h == history[verdict[1].ip] IN
          /\ Len(h) = 4
          /\ h[1].ok /\ h[2].ok /\ ~h[3].ok /\ h[4].ok

(***************************************************************************)
(* serve.py: fetch_transcript, the fallback chain                          *)
(*                                                                         *)
(* `world` fixes what each call into youtube_transcript_api does for the   *)
(* video: TRUE = returns, FALSE = raises.                                  *)
(***************************************************************************)
MaxTracks == 2      \* tracks in the enumerated transcript list

FetchFrame == UNCHANGED <<files, inodes, pc, loc, completed, ev, seen, nreq, tmpfiles, renamed,
                          now, ticks, rate_limit, _rate_buckets, history, verdict,
                          url_or_id, video_id, seconds, srt, vtt>>

Track == [fetch : BOOLEAN, is_translatable : BOOLEAN, translate : BOOLEAN]
TrackLists == UNION {[1..n -> Track] : n \in 0..MaxTracks}

Worlds == [ctor : BOOLEAN,              \* YouTubeTranscriptApi(...)
           fetch : BOOLEAN,             \* api.fetch(video_id)
           get_transcript : BOOLEAN,    \* YouTubeTranscriptApi.get_transcript(video_id, languages)
           list : BOOLEAN,              \* api.list(video_id)
           list_transcripts : BOOLEAN,  \* YouTubeTranscriptApi.list_transcripts(video_id)
           find_transcript : BOOLEAN,   \* find_transcript(languages) and its fetch()
           find_manually_created_transcript : BOOLEAN,
           find_generated_transcript : BOOLEAN,
           tracks : TrackLists]

NoTranscript == <<"RuntimeError", "No transcript available for the requested video.">>

AfterSwapped(step) ==
    CASE step = "direct" -> "list"
      [] step = "exact" -> "generated"
      [] step = "generated" -> "manual"
      [] step = "manual" -> "first"
      [] step = "first" -> "translated"
      [] OTHER -> "raise"

\* the order of the try blocks: where control goes when the block `step` has failed
After(step) ==
    CASE step = "direct" -> "list"
      [] step = "exact" -> "manual"
      [] step = "manual" -> "generated"
      [] step = "generated" -> "first"
      [] step = "first" -> "translated"
      [] OTHER -> "raise"

FReturn(value) ==
    /\ fresult' = value
    /\ fpc' = "done"
    /\ fi' = 0

FGoto(to) ==
    /\ fpc' = to
    /\ fi' = IF to \in {"first", "translated"} THEN 1 ELSE 0
    /\ UNCHANGED fresult

\* a string of request.args is a sequence of tokens: ",", " " and words
Blank == " "

\* s.strip()
RECURSIVE Strip(_)
Strip(str) ==
    IF str = <<>> THEN str
    ELSE IF Head(str) = Blank THEN Strip(Tail(str))
    ELSE IF str[Len(str)] = Blank THEN Strip(SubSeq(str, 1, Len(str) - 1))
    ELSE str

\* langs_csv.split(",")
RECURSIVE SplitCsv(_)
SplitCsv(str) ==
    IF \A i \in 1..Len(str) : str[i] # ","
    THEN <<str>>
    ELSE LET i == CHOOSE k \in 1..Len(str) : str[k] = "," /\ \A m \in 1..(k - 1) : str[m] # ","
         IN  <<SubSeq(str, 1, i - 1)>> \o SplitCsv(SubSeq(str, i + 1, Len(str)))

\* [l.strip() for l in items if l.strip()]
RECURSIVE Stripped(_)
Stripped(items) ==
    IF items = <<>> THEN <<>>
    ELSE (IF Strip(Head(items)) = <<>> THEN <<>> ELSE <<Strip(Head(items))>>)
            \o Stripped(Tail(items))

DefaultLanguages == <<<<"en">>, <<"en-US">>, <<"en-GB">>>>

\* ?lang=..&lang=.. (getlist) and ?languages=a,b (get; <<>> when absent or empty)
get_languages_from_request(a) ==
    LET multi == IF a.lang # <<>> THEN Stripped(a.lang) ELSE <<>>
        csv == IF a.languages # <<>> THEN Stripped(SplitCsv(a.languages)) ELSE <<>>
        langs == multi \o csv
    IN  IF langs # <<>> THEN langs ELSE DefaultLanguages

Requests == [lang : {<<>>, <<<<"de">>>>, <<<<Blank>>, <<Blank, "fr", Blank>>>>},
             languages : {<<>>, <<"de", ",", Blank, "en", ",">>}]

\* the /transcript handler: languages = get_languages_from_request(), then
\* fetch_transcript(video_id, languages)
GetLanguages ==
    /\ fpc = "request"
    /\ languages' = get_languages_from_request(args)
    /\ fpc' = "direct"
    /\ UNCHANGED <<world, fi, tried, fresult, args, passed>>
    /\ FetchFrame

\* 1) api.fetch(video_id), else get_transcript(video_id, languages)
Direct ==
    /\ fpc = "direct"
    /\ tried' = Append(tried, "direct")
    /\ IF world.ctor /\ world.fetch THEN FReturn(<<"ok", "direct", "api.fetch">>)
       ELSE IF world.ctor /\ world.get_transcript
            THEN FReturn(<<"ok", "direct", "get_transcript">>)
       ELSE FGoto(After("direct"))
    /\ passed' = IF ~world.ctor THEN passed
                 ELSE IF world.fetch THEN Append(passed, <<"api.fetch", <<>>>>)
                 ELSE passed \o <<<<"api.fetch", <<>>>>, <<"get_transcript", <<languages>>>>>>
    /\ UNCHANGED <<world, args, languages>>
    /\ FetchFrame

\* 2) api.list(video_id), else list_transcripts(video_id); None when both raise
ListTracks ==
    /\ fpc = "list"
    /\ IF world.ctor /\ (world.list \/ world.list_transcripts)
       THEN FGoto("exact")
       ELSE FGoto("raise")
    /\ UNCHANGED <<world, tried, args, languages, passed>>
    /\ FetchFrame

\* transcript_list.find_transcript(languages).fetch()
FindExact ==
    /\ fpc = "exact"
    /\ tried' = Append(tried, "exact")
    /\ IF world.find_transcript THEN FReturn(<<"ok", "exact", "find_transcript">>)
       ELSE FGoto(After("exact"))
    /\ passed' = Append(passed, <<"find_transcript", <<languages>>>>)
    /\ UNCHANGED <<world, args, languages>>
    /\ FetchFrame

\* transcript_list.find_manually_created_transcript(languages).fetch()
FindManual ==
    /\ fpc = "manual"
    /\ tried' = Append(tried, "manual")
    /\ IF world.find_manually_created_transcript
       THEN FReturn(<<"ok", "manual", "find_manually_created_transcript">>)
       ELSE FGoto(After("manual"))
    /\ passed' = Append(passed, <<"find_manually_created_transcript", <<languages>>>>)
    /\ UNCHANGED <<world, args, languages>>
    /\ FetchFrame

\* transcript_list.find_generated_transcript(languages).fetch()
FindGenerated ==
    /\ fpc = "generated"
    /\ tried' = Append(tried, "generated")
    /\ IF world.find_generated_transcript
       THEN FReturn(<<"ok", "generated", "find_generated_transcript">>)
       ELSE FGoto(After("generated"))
    /\ passed' = Append(passed, <<"find_generated_transcript", <<languages>>>>)
    /\ UNCHANGED <<world, args, languages>>
    /\ FetchFrame

\* for t in transcript_list: try: return t.fetch() except: continue
FirstAvailable ==
    /\ fpc = "first"
    /\ tried' = IF fi = 1 THEN Append(tried, "first") ELSE tried
    /\ IF fi > Len(world.tracks) THEN FGoto(After("first"))
       ELSE IF world.tracks[fi].fetch THEN FReturn(<<"ok", "first", fi>>)
       ELSE /\ fi' = fi + 1
            /\ UNCHANGED <<fpc, fresult>>
    /\ passed' = IF fi <= Len(world.tracks) THEN Append(passed, <<"t.fetch", <<>>>>) ELSE passed
    /\ UNCHANGED <<world, args, languages>>
    /\ FetchFrame

\* for t in transcript_list: if t.is_translatable: return t.translate(preferred).fetch()
Translated ==
    /\ fpc = "translated"
    /\ tried' = IF fi = 1 THEN Append(tried, "translated") ELSE tried
    /\ IF fi > Len(world.tracks) THEN FGoto(After("translated"))
       ELSE IF world.tracks[fi].is_translatable /\ world.tracks[fi].translate
            THEN FReturn(<<"ok", "translated", fi>>)
       ELSE /\ fi' = fi + 1
            /\ UNCHANGED <<fpc, fresult>>
    /\ passed' = IF fi <= Len(world.tracks) /\ world.tracks[fi].is_translatable
                 THEN Append(passed, <<"t.translate", <<languages[1]>>>>) ELSE passed
    /\ UNCHANGED <<world, args, languages>>
    /\ FetchFrame

\* 3) raise RuntimeError("No transcript available for the requested video.")
RaiseNoTranscript ==
    /\ fpc = "raise"
    /\ FReturn(NoTranscript)
    /\ UNCHANGED <<world, tried, args, languages, passed>>
    /\ FetchFrame

FetchInit ==
    /\ world \in Worlds
    /\ args \in Requests
    /\ languages = <<>>
    /\ passed = <<>>
    /\ fpc = "request"
    /\ fi = 0
    /\ tried = <<>>
    /\ fresult = <<>>

InitFetch == FetchInit /\ ServerIdle /\ RateIdle /\ ExtractIdle /\ TimeIdle
NextFetch ==
    \/ GetLanguages
    \/ Direct
    \/ ListTracks
    \/ FindExact
    \/ FindManual
    \/ FindGenerated
    \/ FirstAvailable
    \/ Translated
    \/ RaiseNoTranscript
SpecFetch == InitFetch /\ [][NextFetch]_vars

\* the strategies in the order of their priority
Priority == <<"direct", "exact", "manual", "generated", "first", "translated">>

\* the track list can be enumerated
Listed(w) == w.ctor /\ (w.list \/ w.list_transcripts)

\* strategy s, were it attempted for the video, would return a transcript
Succeeds(w, s) ==
    CASE s = "direct" -> w.ctor /\ (w.fetch \/ w.get_transcript)
      [] s = "exact" -> Listed(w) /\ w.find_transcript
      [] s = "manual" -> Listed(w) /\ w.find_manually_created_transcript
      [] s = "generated" -> Listed(w) /\ w.find_generated_transcript
      [] s = "first" -> Listed(w) /\ \E i \in 1..Len(w.tracks) : w.tracks[i].fetch
      [] OTHER -> Listed(w) /\ \E i \in 1..Len(w.tracks) :
                        w.tracks[i].is_translatable /\ w.tracks[i].translate

\* C8: the strategies are attempted in priority order, each only after all before it
\* have failed; the value returned is that of the first strategy that succeeds; the
\* call raises the one "no transcript available" error exactly when every strategy
\* fails, and nothing else ever leaves the function.
C8_FallbackOrder ==
    /\ Len(tried) <= Len(Priority)
    /\ \A i \in 1..Len(tried) :
          /\ tried[i] = Priority[i]
          /\ (i < Len(tried) \/ fpc = "raise") => ~Succeeds(world, tried[i])
    /\ fpc = "done" =>
          /\ fresult = NoTranscript <=> \A i \in 1..Len(Priority) : ~Succeeds(world, Priority[i])
          /\ fresult # NoTranscript =>
                /\ fresult[1] = "ok"
                /\ fresult[2] = tried[Len(tried)]
                /\ Succeeds(world, fresult[2])
                /\ \A i \in 1..Len(Priority) :
                      Succeeds(world, Priority[i]) => i >= Len(tried)
                /\ fresult[2] = "first" =>
                      /\ world.tracks[fresult[3]].fetch
                      /\ \A j \in 1..(fresult[3] - 1) : ~world.tracks[j].fetch
                /\ fresult[2] = "translated" =>
                      \A j \in 1..(fresult[3] - 1) :
                          ~(world.tracks[j].is_translatable /\ world.tracks[j].translate)

\* the last strategy returns the translation of the second track after all else failed
C8_Witness ==
    /\ fpc = "done"
    /\ fresult = <<"ok", "translated", 2>>
    /\ tried = Priority

\* the calls that select a transcript by language: the direct retrieval and the three
\* find steps (the first-fetchable fallback and the translation come after them)
LanguageCalls == {"api.fetch", "get_transcript", "find_transcript",
                  "find_manually_created_transcript", "find_generated_transcript"}

\* C13: every language-matching step of fetch_transcript, the direct retrieval
\* included, is called with the caller's preferred languages in the caller's order
\* (en, en-US, en-GB when the request names none); a result of a step before the
\* first-fetchable fallback comes from a call that was given that list.
C13_PreferredLanguages ==
    fpc # "request" =>
        /\ (Stripped(args.lang) = <<>> /\ Stripped(SplitCsv(args.languages)) = <<>>)
              => languages = DefaultLanguages
        /\ \A i \in 1..Len(passed) :
              passed[i][1] \in LanguageCalls => passed[i][2] = <<languages>>
        /\ (fresult # <<>> /\ fresult[1] = "ok"
                /\ fresult[2] \in {"direct", "exact", "manual", "generated"})
              => passed[Len(passed)][2] = <<languages>>

(***************************************************************************)
(* serve.py: extract_video_id                                              *)
(*                                                                         *)
(* A string is a sequence of tokens: the separators "://", "/", "?", "=",  *)
(* "&", "#", "." and words without separators.  "x in s" and startswith    *)
(* are taken on tokens.  None is <<"None">>, a str is <<"str", tokens>>.   *)
(***************************************************************************)
MaxSegs == 2        \* path segments of the generated inputs

ExtractFrame == UNCHANGED <<files, inodes, pc, loc, completed, ev, seen, nreq, tmpfiles, renamed,
                            now, ticks, rate_limit, _rate_buckets, history, verdict,
                            world, fpc, fi, tried, fresult, args, languages, passed, seconds, srt, vtt>>

None == <<"None">>
Str(tokens) == <<"str", tokens>>

RECURSIVE StrLen(_)
StrLen(str) == IF str = <<>> THEN 0 ELSE Len(Head(str)) + StrLen(Tail(str))

\* sub in str
Contains(str, sub) ==
    \E i \in 0..(Len(str) - Len(sub)) : SubSeq(str, i + 1, i + Len(sub)) = sub

\* str.startswith(prefix)
StartsWith(str, prefix) ==
    Len(str) >= Len(prefix) /\ SubSeq(str, 1, Len(prefix)) = prefix

\* index of the first token of str that is in seps, Len(str) + 1 if there is none
RECURSIVE Find(_, _)
Find(str, seps) ==
    IF str = <<>> \/ Head(str) \in seps THEN 1 ELSE 1 + Find(Tail(str), seps)

\* str.split(sep)
RECURSIVE Split(_, _)
Split(str, sep) ==
    LET i == Find(str, {sep}) IN
    IF i > Len(str) THEN <<str>>
    ELSE <<SubSeq(str, 1, i - 1)>> \o Split(SubSeq(str, i + 1, Len(str)), sep)

\* str.lstrip("/")
RECURSIVE LStrip(_)
LStrip(str) == IF str # <<>> /\ Head(str) = "/" THEN LStrip(Tail(str)) ELSE str

\* urlparse: scheme "://" netloc, netloc up to the first of / ? #, then the path up
\* to ? or #, then the query up to #
urlparse(str) ==
    LET hasNetloc == Len(str) >= 2 /\ str[2] = "://" /\ str[1] \notin {"://", "/", "?", "#"}
        rest == IF hasNetloc THEN SubSeq(str, 3, Len(str)) ELSE str
        n == IF hasNetloc THEN Find(rest, {"/", "?", "#"}) - 1 ELSE 0
        afterHost == SubSeq(rest, n + 1, Len(rest))
        noFrag == SubSeq(afterHost, 1, Find(afterHost, {"#"}) - 1)
        q == Find(noFrag, {"?"})
    IN  [hostname |-> SubSeq(rest, 1, n),
         path |-> SubSeq(noFrag, 1, q - 1),
         query |-> SubSeq(noFrag, q + 1, Len(noFrag))]

\* parse_qs(query).get(name, [None])[0]: the first name=value with a non-blank value
RECURSIVE FirstParam(_, _)
FirstParam(pairs, name) ==
    IF pairs = <<>> THEN None
    ELSE LET nv == Head(pairs)
             e == Find(nv, {"="})
         IN  IF e <= Len(nv) /\ SubSeq(nv, 1, e - 1) = <<name>> /\ e < Len(nv)
             THEN Str(SubSeq(nv, e + 1, Len(nv)))
             ELSE FirstParam(Tail(pairs), name)

parse_qs_get(query, name) == FirstParam(Split(query, "&"), name)

\* u.path.lstrip("/") or None
youtu_be_id(path) == IF LStrip(path) = <<>> THEN None ELSE Str(LStrip(path))

extract_video_id(str) ==
    IF str = <<>> THEN None
    ELSE IF ~Contains(str, <<"://">>) /\ ~Contains(str, <<"/">>) /\ StrLen(str) >= 8
    THEN Str(str)
    ELSE LET u == urlparse(str) IN
         IF Contains(u.hostname, <<"youtu", ".", "be">>) THEN youtu_be_id(u.path)
         ELSE IF Contains(u.hostname, <<"youtube", ".", "com">>)
              THEN IF StartsWith(u.path, <<"/", "watch">>) THEN parse_qs_get(u.query, "v")
                   ELSE IF StartsWith(u.path, <<"/", "shorts", "/">>)
                        THEN Str(Split(u.path, "/")[3])
                        ELSE None
         ELSE None

Schemes == {<<>>, <<"https", "://">>}
Hosts == {<<>>, <<"dQw4w9WgXcQ">>, <<"youtu", ".", "be">>, <<"www", ".", "youtube", ".", "com">>,
          <<"example", ".", "com">>}
Segs == {"watch", "shorts", "ID", "X"}
Queries == {<<>>, <<"?", "v", "=", "ID">>, <<"?", "t", "=", "X", "&", "v", "=", "ID">>,
            <<"?", "v", "=">>, <<"?", "v", "=", "ID", "&", "v", "=", "X">>,
            <<"?", "t", "=", "X">>, <<"?", "v", "=", "ID", "#", "X">>}

RECURSIVE JoinPath(_)
JoinPath(segs) == IF segs = <<>> THEN <<>> ELSE <<"/", Head(segs)>> \o JoinPath(Tail(segs))

PathsOfUrls ==
    UNION {{JoinPath(segs), JoinPath(segs) \o <<"/">>} : segs \in UNION {[1..n -> Segs] : n \in 0..MaxSegs}}

Inputs == {sch \o h \o pa \o q : sch \in Schemes, h \in Hosts, pa \in PathsOfUrls, q \in Queries}

Extract ==
    /\ video_id = <<>>
    /\ video_id' = extract_video_id(url_or_id)
    /\ UNCHANGED url_or_id
    /\ ExtractFrame

InitExtract ==
    /\ url_or_id \in Inputs
    /\ video_id = <<>>
    /\ ServerIdle /\ RateIdle /\ FetchIdle /\ TimeIdle
NextExtract == Extract
SpecExtract == InitExtract /\ [][NextExtract]_vars

\* the segments of a path: /a/b/ has the segments a, b and an empty one
Segments(path) == Tail(Split(path, "/"))

\* C9: for a host containing youtu.be the result is the first path segment only; for
\* youtube.com with path /watch it is the v parameter; for a path prefixed /shorts/
\* it is the segment following /shorts/.  So youtu.be/ID, youtube.com/watch?v=ID and
\* youtube.com/shorts/ID all give exactly ID.
C9_ExtractsId ==
    video_id # <<>> =>
        LET u == urlparse(url_or_id)
            segs == IF u.path = <<>> THEN <<>> ELSE Segments(u.path)
            be == Contains(u.hostname, <<"youtu", ".", "be">>)
            com == ~be /\ Contains(u.hostname, <<"youtube", ".", "com">>)
        IN  /\ (be /\ segs # <<>> /\ segs[1] # <<>>) => video_id = Str(segs[1])
            /\ (com /\ u.path = <<"/", "watch">> /\ u.query = <<"v", "=", "ID">>)
                  => video_id = Str(<<"ID">>)
            /\ (com /\ Len(segs) >= 2 /\ segs[1] = <<"shorts">> /\ segs[2] # <<>>)
                  => video_id = Str(segs[2])

(***************************************************************************)
(* serve.py: seconds_to_srt_time, seconds_to_vtt_time                      *)
(*                                                                         *)
(* A time is a whole number of ticks, TicksPerMs ticks to the millisecond, *)
(* and the arithmetic is exact.  A timestamp is the sequence of its        *)
(* characters, digits as numbers.                                          *)
(***************************************************************************)
TicksPerMs == 2     \* resolution of the generated times: half a millisecond

TicksPerSecond == 1000 * TicksPerMs
WholeSeconds == {0, 1, 59, 61, 3599, 3661, 86399}
Times == {w * TicksPerSecond + f : w \in WholeSeconds, f \in 0..(TicksPerSecond - 1)}

TimeFrame == UNCHANGED <<files, inodes, pc, loc, completed, ev, seen, nreq, tmpfiles, renamed,
                         now, ticks, rate_limit, _rate_buckets, history, verdict,
                         world, fpc, fi, tried, fresult, args, languages, passed, url_or_id, video_id>>

\* int(seconds)
IntPart(t) == t \div TicksPerSecond

\* round(x) of a float x = n / TicksPerMs: to the nearest integer, a tie to the even one
round(n) ==
    LET q == n \div TicksPerMs
        r == n % TicksPerMs
    IN  IF 2 * r < TicksPerMs THEN q
        ELSE IF 2 * r > TicksPerMs THEN q + 1
        ELSE IF q % 2 = 0 THEN q ELSE q + 1

\* ms = int(round((seconds - int(seconds)) * 1000))
Millis(t) == round(t - IntPart(t) * TicksPerSecond)

RECURSIVE Digits(_)
Digits(n) == IF n < 10 THEN <<n>> ELSE Digits(n \div 10) \o <<n % 10>>

\* f"{n:0{width}d}": zero-padded to at least width characters
RECURSIVE Pad(_, _)
Pad(digits, width) == IF Len(digits) >= width THEN digits ELSE Pad(<<0>> \o digits, width)

Format(t, sep) ==
    LET ms == Millis(t)
        sec == IntPart(t)
        h == sec \div 3600
        m == (sec % 3600) \div 60
        s2 == sec % 60
    IN  Pad(Digits(h), 2) \o <<":">> \o Pad(Digits(m), 2) \o <<":">> \o Pad(Digits(s2), 2)
          \o <<sep>> \o Pad(Digits(ms), 3)

seconds_to_srt_time(t) == Format(t, ",")
seconds_to_vtt_time(t) == Format(t, ".")

SrtTime ==
    /\ srt = <<>>
    /\ srt' = seconds_to_srt_time(seconds)
    /\ UNCHANGED <<seconds, vtt>>
    /\ TimeFrame

VttTime ==
    /\ vtt = <<>>
    /\ vtt' = seconds_to_vtt_time(seconds)
    /\ UNCHANGED <<seconds, srt>>
    /\ TimeFrame

InitTime ==
    /\ seconds \in Times
    /\ srt = <<>> /\ vtt = <<>>
    /\ ServerIdle /\ RateIdle /\ FetchIdle /\ ExtractIdle
NextTime == SrtTime \/ VttTime
SpecTime == InitTime /\ [][NextTime]_vars

\* the fractional part times 1000, rounded half-up
HalfUp(t) == (2 * (t - IntPart(t) * TicksPerSecond) + TicksPerMs) \div (2 * TicksPerMs)

\* the timestamp is HH:MM:SS, the separator and a three-digit field with the value ms
HasForm(stamp, sep, ms) ==
    /\ Len(stamp) = 12
    /\ stamp[3] = ":" /\ stamp[6] = ":" /\ stamp[9] = sep
    /\ SubSeq(stamp, 10, 12) = Pad(Digits(ms), 3)

\* C10: for every non-negative time both functions give HH:MM:SS,mmm (HH:MM:SS.mmm)
\* with a milliseconds field of exactly three digits that equals the fractional
\* part times 1000 rounded half-up: never four digits, and a half-way value rounds up.
C10_Milliseconds ==
    /\ srt # <<>> => \E ms \in 0..999 :
                        HasForm(srt, ",", ms) /\ (HalfUp(seconds) <= 999 => ms = HalfUp(seconds))
    /\ vtt # <<>> => \E ms \in 0..999 :
                        HasForm(vtt, ".", ms) /\ (HalfUp(seconds) <= 999 => ms = HalfUp(seconds))

====
